---- MODULE Spec2Model ----
(***************************************************************************)
(* A model of hpc_submit (src/hpc_submit.py and src/backends/*.py): the    *)
(* layered configuration merge, the --set override parser, the             *)
(* configuration schemas, the backend loader, the artifact writer and the  *)
(* backends' generate methods, as one run of main after another.           *)
(*                                                                         *)
(* Python values are tagged records with the same three fields, so that    *)
(* any two of them can be compared: None, a string, an integer (its        *)
(* decimal text) or a dict (a function from string keys to values).        *)
(***************************************************************************)
EXTENDS Integers, Sequences, FiniteSets, TLC

VARIABLES
    pc,         \* where the current run of main stands
    argv,       \* the command line: [mode, project_config, set]
    fs,         \* the configuration files: path -> [exists, data]
    overrides,  \* main's local `overrides`
    merged,     \* main's local `merged`
    config,     \* main's local `config` (the dataclass instance)
    writer,     \* TRUE once ArtifactWriter(outdir) is constructed
    step,       \* index of the next statement of BackendClass.generate
    exc,        \* the exception that ended the run (NoExc: none)
    at,         \* the statement of main at which the run ended
    outdir,     \* the artifact directory: [exists, files: name -> [content, mode]]
    written,    \* names passed to write_text in the current run, in order
    runs,       \* number of runs of main started so far
    prevdir,    \* outdir as the current run found it
    fin,        \* inputs of the pure-function specifications
    fout        \* their results

vars == <<pc, argv, fs, overrides, merged, config, writer, step, exc, at,
          outdir, written, runs, prevdir, fin, fout>>

mainVars == <<pc, argv, fs, overrides, merged, config, writer, step, exc, at,
              outdir, written, runs, prevdir>>

-----------------------------------------------------------------------------
(* Python values *)

EmptyMap == [k \in {} |-> k]

NoneVal == [tag |-> "none", s |-> "", m |-> EmptyMap]
StrVal(s) == [tag |-> "str", s |-> s, m |-> EmptyMap]
IntVal(s) == [tag |-> "int", s |-> s, m |-> EmptyMap]
ListVal(s) == [tag |-> "list", s |-> s, m |-> EmptyMap]
Dict(m) == [tag |-> "dict", s |-> "", m |-> m]

EmptyDict == Dict(EmptyMap)

IsDict(v) == v.tag = "dict"

\* k in d
HasKey(d, k) == k \in DOMAIN d.m

\* d[k] = v on a copy of d
Put(d, k, v) ==
    Dict([j \in DOMAIN d.m \cup {k} |-> IF j = k THEN v ELSE d.m[j]])

\* d.get(k, default)
Get(d, k, default) == IF HasKey(d, k) THEN d.m[k] ELSE default

\* x or {}  (None, "", 0 and {} are false)
Truthy(v) ==
    CASE v.tag = "none" -> FALSE
      [] v.tag = "str"  -> v.s # ""
      [] v.tag = "int"  -> v.s # "0"
      [] v.tag = "list" -> v.s # ""
      [] OTHER          -> DOMAIN v.m # {}

\* str(x) for the values the schemas convert
PyStr(v) ==
    CASE v.tag = "none" -> "None"
      [] v.tag = "dict" -> "{...}"
      [] OTHER          -> v.s

-----------------------------------------------------------------------------
(* Exceptions and outcomes *)

NoExc == [kind |-> "", what |-> "", arg |-> ""]

ConfigError(what, arg) == [kind |-> "ConfigError", what |-> what, arg |-> arg]

PyError(kind, arg) == [kind |-> kind, what |-> "", arg |-> arg]

Ok(v)    == [exc |-> NoExc, val |-> v]
Raise(e) == [exc |-> e, val |-> NoneVal]
IsOk(r)  == r.exc = NoExc

-----------------------------------------------------------------------------
(* ConfigParser *)

NoFile == [exists |-> FALSE, data |-> NoneVal]
File(data) == [exists |-> TRUE, data |-> data]

\* ConfigParser.load_yaml_if_exists: data is what yaml.safe_load returns
load_yaml_if_exists(f, path) ==
    IF ~f[path].exists THEN Ok(EmptyDict)
    ELSE IF f[path].data = NoneVal THEN Ok(EmptyDict)
    ELSE IF ~IsDict(f[path].data)
         THEN Raise(ConfigError("must be a YAML mapping at top-level", path))
    ELSE Ok(f[path].data)

RECURSIVE deep_merge_base_keys_only(_, _)
deep_merge_base_keys_only(base, override) ==
    IF IsDict(base) /\ IsDict(override)
    THEN Dict([k \in DOMAIN base.m |->
              IF k \in DOMAIN override.m
              THEN deep_merge_base_keys_only(base.m[k], override.m[k])
              ELSE base.m[k]])
    ELSE override

RECURSIVE deep_merge_forget_base(_, _)
deep_merge_forget_base(base, override) ==
    IF IsDict(base) /\ IsDict(override)
    THEN Dict([k \in DOMAIN override.m |->
              IF k \in DOMAIN base.m
              THEN deep_merge_forget_base(base.m[k], override.m[k])
              ELSE override.m[k]])
    ELSE override

\* ConfigParser.deep_merge
RECURSIVE deep_merge(_, _)
deep_merge(base, override) ==
    IF IsDict(base) /\ IsDict(override)
    THEN Dict([k \in DOMAIN base.m \cup DOMAIN override.m |->
              IF k \in DOMAIN override.m
              THEN IF k \in DOMAIN base.m
                   THEN deep_merge(base.m[k], override.m[k])
                   ELSE override.m[k]
              ELSE base.m[k]])
    ELSE override

\* the paths main passes to load_merged
CONFIG_GLOBAL == "global"
CONFIG_USER == "user"
NoPath == ""

load_merged_user_first(f, global_cfg, user_cfg, project_cfg, cli_overrides) ==
    LET u == load_yaml_if_exists(f, user_cfg)
        g == load_yaml_if_exists(f, global_cfg)
        p == IF project_cfg # NoPath /\ f[project_cfg].exists
             THEN load_yaml_if_exists(f, project_cfg) ELSE Ok(EmptyDict)
    IN  IF ~IsOk(g) THEN g
        ELSE IF ~IsOk(u) THEN u
        ELSE IF ~IsOk(p) THEN p
        ELSE Ok(deep_merge(deep_merge(deep_merge(deep_merge(EmptyDict, u.val),
                                                 g.val), p.val), cli_overrides))

\* ConfigParser.load_merged
load_merged(f, global_cfg, user_cfg, project_cfg, cli_overrides) ==
    LET g == load_yaml_if_exists(f, global_cfg)
        u == load_yaml_if_exists(f, user_cfg)
        p == IF project_cfg # NoPath /\ f[project_cfg].exists
             THEN load_yaml_if_exists(f, project_cfg) ELSE Ok(EmptyDict)
    IN  IF ~IsOk(g) THEN g
        ELSE IF ~IsOk(u) THEN u
        ELSE IF ~IsOk(p) THEN p
        ELSE Ok(deep_merge(deep_merge(deep_merge(deep_merge(EmptyDict, g.val),
                                                 u.val), p.val), cli_overrides))

-----------------------------------------------------------------------------
(* CliOverrideParser.  A --set item is a sequence of lexemes: "=", "." and  *)
(* " " stand for themselves, "{", ":", "}" and "[]" are YAML punctuation    *)
(* in a value, and any other lexeme is a run of characters holding none of  *)
(* these.                                                                   *)

\* "".join(lexemes)
RECURSIVE Join(_)
Join(text) == IF text = <<>> THEN "" ELSE Head(text) \o Join(Tail(text))

\* index of the first "=" of item, 0 when there is none
RECURSIVE FirstEq(_, _)
FirstEq(item, i) ==
    IF i > Len(item) THEN 0
    ELSE IF item[i] = "=" THEN i
    ELSE FirstEq(item, i + 1)

\* str.strip()
RECURSIVE Strip(_)
Strip(text) ==
    IF text = <<>> THEN text
    ELSE IF Head(text) = " " THEN Strip(Tail(text))
    ELSE IF text[Len(text)] = " " THEN Strip(SubSeq(text, 1, Len(text) - 1))
    ELSE text

\* key.split(".")
RECURSIVE SplitDots(_, _)
SplitDots(text, cur) ==
    IF text = <<>> THEN <<cur>>
    ELSE IF Head(text) = "." THEN <<cur>> \o SplitDots(Tail(text), "")
    ELSE SplitDots(Tail(text), cur \o Head(text))

IsNumeral(s) == s \in {"0", "1", "2", "3", "4", "7"}

\* yaml.safe_load of a plain scalar
SafeLoadScalar(text) ==
    LET s == Join(Strip(text))
    IN  IF s = "" \/ s = "null" \/ s = "~" THEN NoneVal
        ELSE IF s = "''" THEN StrVal("")
        ELSE IF IsNumeral(s) THEN IntVal(s)
        ELSE StrVal(s)

\* yaml.safe_load of the value of a --set item: a flow mapping {} or {k: v},
\* a flow sequence, or a plain scalar
SafeLoad(text) ==
    LET t == Strip(text)
    IN  IF t = <<"{", "}">> THEN EmptyDict
        ELSE IF Len(t) = 5 /\ t[1] = "{" /\ t[3] = ":" /\ t[5] = "}"
             THEN Dict([k \in {t[2]} |-> SafeLoadScalar(<<t[4]>>)])
        ELSE IF t = <<"[]">> THEN ListVal("")
        ELSE SafeLoadScalar(t)

RECURSIVE SetPath_reset(_, _, _)
SetPath_reset(cur, parts, v) ==
    IF Len(parts) = 1 THEN Put(cur, parts[1], v)
    ELSE Put(cur, parts[1], SetPath_reset(EmptyDict, Tail(parts), v))

\* lines 92-98 of parse: walk out along parts[:-1], then assign parts[-1]
RECURSIVE SetPath(_, _, _)
SetPath(cur, parts, v) ==
    IF Len(parts) = 1 THEN Put(cur, parts[1], v)
    ELSE LET p == parts[1]
             child == IF ~HasKey(cur, p) \/ ~IsDict(cur.m[p])
                      THEN EmptyDict ELSE cur.m[p]
         IN  Put(cur, p, SetPath(child, Tail(parts), v))

\* CliOverrideParser.parse, from the i-th item on, with `out` so far
RECURSIVE ParseFrom(_, _, _)
ParseFrom(items, i, out) ==
    IF i > Len(items) THEN Ok(out)
    ELSE LET item == items[i]
             e == FirstEq(item, 1)
             key == Strip(SubSeq(item, 1, e - 1))
             value == SubSeq(item, e + 1, Len(item))
         IN  IF e = 0
             THEN Raise(ConfigError("--set expects KEY=VALUE", Join(item)))
             ELSE IF key = <<>>
             THEN Raise(ConfigError("Empty key in --set", Join(item)))
             ELSE ParseFrom(items, i + 1,
                            SetPath(out, SplitDots(key, ""), SafeLoad(value)))

\* CliOverrideParser.parse
parse(items) == ParseFrom(items, 1, EmptyDict)

-----------------------------------------------------------------------------
(* Bounds and input universes *)

MaxSize == 2       \* keys (at all levels) of a mapping drawn as an input
MaxLayerSize == 2  \* keys (at all levels) of one configuration layer
MaxItems == 2      \* --set items on one command line
MaxMissing == 2    \* required keys a configuration lacks, of one schema
MaxRuns == 2       \* runs of main on one output directory

Keys == {"a", "b"}

\* number of keys of v, at all levels
RECURSIVE Size(_)
RECURSIVE SizeOver(_, _)
SizeOver(v, ks) ==
    IF ks = {} THEN 0
    ELSE LET k == CHOOSE j \in ks : TRUE
         IN  1 + Size(v.m[k]) + SizeOver(v, ks \ {k})
Size(v) == IF IsDict(v) THEN SizeOver(v, DOMAIN v.m) ELSE 0

\* dicts over some of Keys with values in vals
DictsOver(vals) == {Dict(f) : f \in UNION {[ks -> vals] : ks \in SUBSET Keys}}

\* mappings nested two levels deep, of at most n keys
MappingsOf(leaves, n) ==
    {v \in DictsOver(leaves \cup DictsOver(leaves)) : Size(v) <= n}

Mappings == MappingsOf({IntVal("1"), IntVal("2")}, MaxSize)

\* the mappings a layer can be: its scalars name the layer
LayerMappings(layer) == MappingsOf({StrVal(layer)}, MaxLayerSize)

\* what a configuration file can hold: nothing (absent), an empty document,
\* a document that is no mapping, or a mapping whose scalars name the layer
Files(layer) ==
    {NoFile, File(NoneVal), File(StrVal("x"))}
        \cup {File(v) : v \in LayerMappings(layer)}

\* --set items: dotted keys that are prefixes of one another, scalar, empty,
\* mapping and list values, and the two malformed shapes
ItemKeys ==
    {<<"a">>, <<"a", ".", "b">>, <<"a", ".", "b", ".", "c">>,
     <<"a", ".", "b", ".", "d">>, <<" ", "b">>}
ItemValues ==
    {<<"1">>, <<"2">>, <<>>, <<"x", "=", "y">>, <<"[]">>, <<"{", "}">>,
     <<"{", "c", ":", "2", "}">>, <<"{", "b", ":", "1", "}">>}
Items ==
    {k \o <<"=">> \o v : k \in ItemKeys, v \in ItemValues}
        \cup {<<"a">>, <<"=", "1">>}

SeqsUpTo(S, n) == UNION {[1..k -> S] : k \in 0..n}

-----------------------------------------------------------------------------
(* The pure functions, applied to inputs drawn at Init *)

Idle ==
    /\ pc = "idle" /\ argv = <<>> /\ fs = <<>> /\ overrides = NoneVal
    /\ merged = NoneVal /\ config = <<>> /\ writer = FALSE /\ step = 0
    /\ exc = NoExc /\ at = "" /\ outdir = <<>> /\ written = <<>> /\ runs = 0
    /\ prevdir = <<>>

\* deep_merge on A, B, C
InitMerge ==
    /\ Idle
    /\ fin \in [a : Mappings, b : Mappings, c : Mappings]
    /\ fout = <<>>

ApplyMerge ==
    /\ fout = <<>>
    /\ fout' = [ab   |-> deep_merge(fin.a, fin.b),
                ba   |-> deep_merge(fin.b, fin.a),
                ab_c |-> deep_merge(deep_merge(fin.a, fin.b), fin.c),
                a_bc |-> deep_merge(fin.a, deep_merge(fin.b, fin.c)),
                ae   |-> deep_merge(fin.a, EmptyDict),
                ea   |-> deep_merge(EmptyDict, fin.a)]
    /\ UNCHANGED <<mainVars, fin>>

SpecMerge == InitMerge /\ [][ApplyMerge]_vars

\* load_merged on three files, a project path that is given or not, and
\* the mapping of the overrides
InitLoad ==
    /\ Idle
    /\ fin \in [files : {[p \in {"global", "user", "project"} |->
                             IF p = "global" THEN g
                             ELSE IF p = "user" THEN u ELSE pr] :
                         g \in Files("g"), u \in Files("u"), pr \in Files("p")},
                project_cfg : {NoPath, "project"},
                cli : LayerMappings("c")]
    /\ fout = <<>>

ApplyLoad ==
    /\ fout = <<>>
    /\ fout' = load_merged(fin.files, CONFIG_GLOBAL, CONFIG_USER,
                           fin.project_cfg, fin.cli)
    /\ UNCHANGED <<mainVars, fin>>

SpecLoad == InitLoad /\ [][ApplyLoad]_vars

\* CliOverrideParser.parse on a list of items
InitParse ==
    /\ Idle
    /\ fin \in SeqsUpTo(Items, MaxItems)
    /\ fout = <<>>

ApplyParse ==
    /\ fout = <<>>
    /\ fout' = parse(fin)
    /\ UNCHANGED <<mainVars, fin>>

SpecParse == InitParse /\ [][ApplyParse]_vars

-----------------------------------------------------------------------------
(* Claims about the pure functions *)

\* C9: for every mapping M, deep_merge(M, {}) = M and deep_merge({}, M) = M.
C9_EmptyIsIdentity ==
    fout # <<>> => fout.ae = fin.a /\ fout.ea = fin.a

\* C9 witness: the merges were applied to a mapping that holds a non-empty
\* nested mapping
C9_Witness ==
    /\ fout # <<>>
    /\ \E k \in DOMAIN fin.a.m :
          IsDict(fin.a.m[k]) /\ DOMAIN fin.a.m[k].m # {}
    /\ fout.ae = fin.a

\* A and B never hold the same key unless both hold a mapping there, and then
\* the same is true of those two mappings
RECURSIVE Compatible(_, _)
Compatible(x, y) ==
    /\ IsDict(x) /\ IsDict(y)
    /\ \A k \in DOMAIN x.m \cap DOMAIN y.m : Compatible(x.m[k], y.m[k])

\* C10: for mappings whose key sets are disjoint at every level where both
\* hold a mapping, deep_merge(A, B) = deep_merge(B, A); and for three
\* pairwise such mappings deep_merge(deep_merge(A, B), C) =
\* deep_merge(A, deep_merge(B, C)).
C10_DisjointMergeCommutes ==
    fout # <<>> =>
        /\ Compatible(fin.a, fin.b) => fout.ab = fout.ba
        /\ (Compatible(fin.a, fin.b) /\ Compatible(fin.b, fin.c)
               /\ Compatible(fin.a, fin.c)) => fout.ab_c = fout.a_bc

\* C10 witness: three non-empty pairwise disjoint mappings were merged, and
\* the merge of the first two is neither of them
C10_Witness ==
    /\ fout # <<>>
    /\ DOMAIN fin.a.m # {} /\ DOMAIN fin.b.m # {} /\ DOMAIN fin.c.m # {}
    /\ DOMAIN fin.a.m \cap DOMAIN fin.b.m = {}
    /\ Compatible(fin.a, fin.c) /\ Compatible(fin.b, fin.c)
    /\ fout.ab # fin.a /\ fout.ab # fin.b
    /\ fout.ab = fout.ba /\ fout.ab_c = fout.a_bc

\* the mapping a file contributes as a layer
LayerOf(f, path) ==
    IF f[path].exists /\ IsDict(f[path].data) THEN f[path].data ELSE EmptyDict

\* the four layers of the inputs of load_merged, lowest precedence first
LayersOf(in) ==
    <<LayerOf(in.files, "global"),
      LayerOf(in.files, "user"),
      IF in.project_cfg # NoPath THEN LayerOf(in.files, in.project_cfg)
      ELSE EmptyDict,
      in.cli>>

Highest(S) == CHOOSE i \in S : \A j \in S : j <= i

\* C3: load_merged applies global, user, project (when a path is given and
\* the file exists) and the overrides in that order: a key that is a scalar
\* in every layer defining it has the value of the highest layer defining
\* it, and a key defined in one layer only keeps that layer's value.
C3_HighestLayerWins ==
    (fout # <<>> /\ IsOk(fout)) =>
        \A k \in Keys :
            LET L == LayersOf(fin)
                defs == {i \in DOMAIN L : HasKey(L[i], k)}
            IN  /\ (defs # {} /\ \A i \in defs : ~IsDict(L[i].m[k]))
                      => (HasKey(fout.val, k)
                             /\ fout.val.m[k] = L[Highest(defs)].m[k])
                /\ Cardinality(defs) = 1
                      => (HasKey(fout.val, k)
                             /\ fout.val.m[k] = L[Highest(defs)].m[k])
                /\ defs = {} => ~HasKey(fout.val, k)

\* C3 witness: all four layers define "a" as a scalar, "b" comes from the
\* user file alone, and the merge was computed
C3_Witness ==
    /\ fout # <<>> /\ IsOk(fout)
    /\ fin.project_cfg = "project"
    /\ \A i \in DOMAIN LayersOf(fin) :
          HasKey(LayersOf(fin)[i], "a") /\ ~IsDict(LayersOf(fin)[i].m["a"])
    /\ {i \in DOMAIN LayersOf(fin) : HasKey(LayersOf(fin)[i], "b")} = {2}
    /\ fout.val.m["a"] = StrVal("c")
    /\ fout.val.m["b"] = StrVal("u")

\* the value of a well-formed item, as parse reads it
ItemValue(item) == SafeLoad(SubSeq(item, FirstEq(item, 1) + 1, Len(item)))

WellFormed(item) == IsOk(parse(<<item>>))

\* deep_merge(...deep_merge(parse([t1]), parse([t2]))..., parse([tn]))
RECURSIVE MergeSingles(_, _, _)
MergeSingles(items, i, acc) ==
    IF i > Len(items) THEN acc
    ELSE MergeSingles(items, i + 1, deep_merge(acc, parse(<<items[i]>>).val))

MergedSingles(items) == MergeSingles(items, 2, parse(<<items[1]>>).val)

Example_c == <<"a", ".", "b", ".", "c", "=", "1">>
Example_d == <<"a", ".", "b", ".", "d", "=", "2">>
Example_cd ==
    Dict([k \in {"a"} |->
        Dict([j \in {"b"} |->
            Dict([l \in {"c", "d"} |->
                IF l = "c" THEN IntVal("1") ELSE IntVal("2")])])])

\* C4 as stated: parsing the items t1..tn yields the mapping obtained by
\* deep-merging, left to right, the mappings of the items parsed alone, also
\* when a value is itself a mapping.
C4_ParseIsMergeOfSingles ==
    (fout # <<>> /\ Len(fin) >= 1 /\ \A i \in DOMAIN fin : WellFormed(fin[i]))
        => (IsOk(fout) /\ fout.val = MergedSingles(fin))

\* C4 as amended: the same, for items of which only the first may have a
\* mapping as its value; and a.b.c=1 followed by a.b.d=2 yields
\* {a: {b: {c: 1, d: 2}}}.
C4_ParseIsMergeOfSinglesUnlessMappingValue ==
    (fout # <<>> /\ Len(fin) >= 1 /\ \A i \in DOMAIN fin : WellFormed(fin[i]))
        => /\ IsOk(fout)
           /\ (\A i \in DOMAIN fin : i >= 2 => ~IsDict(ItemValue(fin[i])))
                 => fout.val = MergedSingles(fin)
           /\ fin = <<Example_c, Example_d>> => fout.val = Example_cd

\* C4 witness: a.b.c=1 and a.b.d=2 were parsed
C4_Witness ==
    /\ fin = <<Example_c, Example_d>>
    /\ fout # <<>> /\ IsOk(fout)
    /\ fout.val = Example_cd
    /\ fout.val = MergedSingles(fin)

-----------------------------------------------------------------------------
(* Configuration schemas.  The keyword arguments parse returns, and the     *)
(* dataclass instance built from them, are functions from field names to    *)
(* values.  The backend section of the merged mapping is None, absent or a  *)
(* mapping in every input of the model.                                     *)

Update_keep_base(base, more) ==
    [k \in DOMAIN base \cup DOMAIN more |->
        IF k \in DOMAIN base THEN base[k] ELSE more[k]]

\* base.update(more)
Update(base, more) ==
    [k \in DOMAIN base \cup DOMAIN more |->
        IF k \in DOMAIN more THEN more[k] ELSE base[k]]

\* Path.expanduser
expanduser(s) == IF s = "~" THEN "/home/user" ELSE s

\* Path(str(v)).expanduser()
AsPath(v) == StrVal(expanduser(PyStr(v)))

\* int(v)
PyInt(v) ==
    CASE v.tag = "int" -> Ok(v)
      [] v.tag = "str" -> IF IsNumeral(v.s) THEN Ok(IntVal(v.s))
                          ELSE Raise(PyError("ValueError", v.s))
      [] OTHER         -> Raise(PyError("TypeError", v.tag))

\* str(v or "")
StrOrEmpty(v) == StrVal(IF Truthy(v) THEN PyStr(v) ELSE "")

_req_absent_only(d, key) ==
    IF ~HasKey(d, key)
    THEN Raise(ConfigError("Missing required config key", key))
    ELSE Ok(d.m[key])

\* BaseConfig._req
_req(d, key) ==
    IF ~HasKey(d, key) \/ d.m[key] = NoneVal \/ d.m[key] = StrVal("")
    THEN Raise(ConfigError("Missing required config key", key))
    ELSE Ok(d.m[key])

\* BaseConfig.parse
BaseConfig_parse(merged_) ==
    LET project_dir == _req(merged_, "project_dir")
        data_dir    == _req(merged_, "data_dir")
        output_dir  == _req(merged_, "output_dir")
        image       == _req(merged_, "image")
        executable  == _req(merged_, "executable")
    IN  IF ~IsOk(project_dir) THEN project_dir
        ELSE IF ~IsOk(data_dir) THEN data_dir
        ELSE IF ~IsOk(output_dir) THEN output_dir
        ELSE IF ~IsOk(image) THEN image
        ELSE IF ~IsOk(executable) THEN executable
        ELSE Ok([f \in {"project_dir", "data_dir", "output_dir", "image",
                        "executable", "requirements", "venv", "project",
                        "mode"} |->
                CASE f = "project_dir"  -> AsPath(project_dir.val)
                  [] f = "data_dir"     -> AsPath(data_dir.val)
                  [] f = "output_dir"   -> AsPath(output_dir.val)
                  [] f = "image"        -> AsPath(image.val)
                  [] f = "executable"   -> StrVal(PyStr(executable.val))
                  [] f = "requirements" ->
                        StrOrEmpty(Get(merged_, "requirements", NoneVal))
                  [] f = "venv"         ->
                        StrOrEmpty(Get(merged_, "venv", NoneVal))
                  [] f = "project"      -> Get(merged_, "project", NoneVal)
                  [] OTHER              ->
                        StrVal(PyStr(Get(merged_, "mode", NoneVal)))])

\* merged.get(name, {}) or {}
Section(merged_, name) ==
    LET s == Get(merged_, name, EmptyDict)
    IN  IF Truthy(s) THEN s ELSE EmptyDict

HtcondorConfig_parse_section_first(merged_) ==
    LET base   == BaseConfig_parse(merged_)
        ht     == Section(merged_, "htcondor")
        pool   == _req(ht, "pool")
        schedd == _req(ht, "schedd")
        cpus   == PyInt(Get(ht, "cpus", IntVal("1")))
        gpus   == PyInt(Get(ht, "gpus", IntVal("0")))
    IN  IF ~IsOk(pool) THEN pool
        ELSE IF ~IsOk(schedd) THEN schedd
        ELSE IF ~IsOk(base) THEN base
        ELSE IF ~IsOk(cpus) THEN cpus
        ELSE IF ~IsOk(gpus) THEN gpus
        ELSE Ok(Update(base.val,
                [f \in {"pool", "schedd", "cpus", "gpus", "ram"} |->
                    CASE f = "pool"   -> StrVal(PyStr(pool.val))
                      [] f = "schedd" -> StrVal(PyStr(schedd.val))
                      [] f = "cpus"   -> cpus.val
                      [] f = "gpus"   -> gpus.val
                      [] OTHER        ->
                            StrVal(PyStr(Get(ht, "ram", StrVal("1G"))))]))

\* HtcondorConfig.parse
HtcondorConfig_parse(merged_) ==
    LET base   == BaseConfig_parse(merged_)
        ht     == Section(merged_, "htcondor")
        pool   == _req(ht, "pool")
        schedd == _req(ht, "schedd")
        cpus   == PyInt(Get(ht, "cpus", IntVal("1")))
        gpus   == PyInt(Get(ht, "gpus", IntVal("0")))
    IN  IF ~IsOk(base) THEN base
        ELSE IF ~IsOk(pool) THEN pool
        ELSE IF ~IsOk(schedd) THEN schedd
        ELSE IF ~IsOk(cpus) THEN cpus
        ELSE IF ~IsOk(gpus) THEN gpus
        ELSE Ok(Update(base.val,
                [f \in {"pool", "schedd", "cpus", "gpus", "ram"} |->
                    CASE f = "pool"   -> StrVal(PyStr(pool.val))
                      [] f = "schedd" -> StrVal(PyStr(schedd.val))
                      [] f = "cpus"   -> cpus.val
                      [] f = "gpus"   -> gpus.val
                      [] OTHER        ->
                            StrVal(PyStr(Get(ht, "ram", StrVal("1G"))))]))

\* SpacehpcConfig.parse
SpacehpcConfig_parse(merged_) ==
    LET base       == BaseConfig_parse(merged_)
        sp         == Section(merged_, "spacehpc")
        login_node == _req(sp, "login_node")
        user       == _req(sp, "user")
        ssh_key    == _req(sp, "ssh_key")
        project    == _req(sp, "project")
        nodes      == PyInt(Get(sp, "nodes", IntVal("1")))
        cpus       == PyInt(Get(sp, "cpus", IntVal("1")))
        gpus       == PyInt(Get(sp, "gpus", IntVal("1")))
        job_name   == PyInt(Get(sp, "job_name", StrVal("hpc_submit")))
    IN  IF ~IsOk(base) THEN base
        ELSE IF ~IsOk(login_node) THEN login_node
        ELSE IF ~IsOk(user) THEN user
        ELSE IF ~IsOk(ssh_key) THEN ssh_key
        ELSE IF ~IsOk(project) THEN project
        ELSE IF ~IsOk(nodes) THEN nodes
        ELSE IF ~IsOk(cpus) THEN cpus
        ELSE IF ~IsOk(gpus) THEN gpus
        ELSE IF ~IsOk(job_name) THEN job_name
        ELSE Ok(Update(base.val,
                [f \in {"login_node", "user", "ssh_key", "project", "queue",
                        "nodes", "cpus", "gpus", "ram", "walltime",
                        "job_name"} |->
                    CASE f = "login_node" -> StrVal(PyStr(login_node.val))
                      [] f = "user"       -> StrVal(PyStr(user.val))
                      [] f = "ssh_key"    -> StrVal(PyStr(ssh_key.val))
                      [] f = "project"    -> StrVal(PyStr(project.val))
                      [] f = "queue"      ->
                            StrVal(PyStr(Get(sp, "queue", NoneVal)))
                      [] f = "nodes"      -> nodes.val
                      [] f = "cpus"       -> cpus.val
                      [] f = "gpus"       -> gpus.val
                      [] f = "ram"        ->
                            StrVal(PyStr(Get(sp, "ram", StrVal("1G"))))
                      [] f = "walltime"   ->
                            StrVal(PyStr(Get(sp, "walltime",
                                             StrVal("00:10:00"))))
                      [] OTHER            -> job_name.val]))

\* TestConfig.parse
TestConfig_parse(merged_) ==
    LET base == BaseConfig_parse(merged_)
    IN  IF ~IsOk(base) THEN base
        ELSE Ok(Update(base.val, [f \in {"a"} |-> StrVal("xyz-abc")]))

\* the dataclass fields of each configuration class
BaseConfig_fields ==
    {"project", "mode", "project_dir", "executable", "data_dir", "output_dir",
     "image", "requirements", "venv"}

Fields(cls) ==
    CASE cls = "HtcondorConfig" ->
            BaseConfig_fields \cup {"pool", "schedd", "cpus", "gpus", "ram"}
      [] cls = "SpacehpcConfig" ->
            BaseConfig_fields \cup
                {"login_node", "user", "ssh_key", "queue", "nodes", "cpus",
                 "gpus", "ram", "walltime", "job_name", "venv_default_remote"}
      [] OTHER -> BaseConfig_fields

\* the fields without a default
RequiredFields(cls) ==
    IF cls = "SpacehpcConfig" THEN {"mode", "project_dir", "executable"}
    ELSE {"project", "mode", "project_dir", "executable"}

\* the default of a field
Default(f) ==
    CASE f \in {"cpus", "nodes"}     -> IntVal("1")
      [] f = "gpus"                  -> IntVal("0")
      [] f = "ram"                   -> StrVal("1G")
      [] f = "walltime"              -> StrVal("00:10:00")
      [] f = "job_name"              -> StrVal("hpc_submit")
      [] f = "venv_default_remote"   -> StrVal(".venv")
      [] f = "ssh_key"               -> StrVal(".")
      [] OTHER                       -> StrVal("")

\* the generated __init__ of the dataclass: cls(**kwargs)
Construct(cls, kwargs) ==
    IF ~(DOMAIN kwargs \subseteq Fields(cls))
    THEN Raise(PyError("TypeError",
                       CHOOSE k \in DOMAIN kwargs : k \notin Fields(cls)))
    ELSE IF ~(RequiredFields(cls) \subseteq DOMAIN kwargs)
    THEN Raise(PyError("TypeError", "missing argument"))
    ELSE Ok([f \in Fields(cls) |->
                IF f \in DOMAIN kwargs THEN kwargs[f] ELSE Default(f)])

\* cls.parse, by class
ParseOf(cls, merged_) ==
    CASE cls = "HtcondorConfig" -> HtcondorConfig_parse(merged_)
      [] cls = "SpacehpcConfig" -> SpacehpcConfig_parse(merged_)
      [] OTHER                  -> TestConfig_parse(merged_)

\* BaseConfig.from_merged
from_merged(cls, merged_) ==
    LET base == ParseOf(cls, merged_)
    IN  IF ~IsOk(base) THEN base ELSE Construct(cls, base.val)

-----------------------------------------------------------------------------
(* The backend loader.  The mode strings of the model carry no surrounding  *)
(* white space, so mode.strip() leaves them as they are.                    *)

\* str.lower on the mode strings of the model
lower(s) == IF s = "HTCondor" THEN "htcondor" ELSE s

\* str.capitalize on the mode strings of the model
capitalize(s) ==
    CASE s \in {"htcondor", "HTCondor"} -> "Htcondor"
      [] s = "spacehpc"                 -> "Spacehpc"
      [] s = "test"                     -> "Test"
      [] OTHER                          -> "Nonexistent"

\* the modules of the backends package and the classes each defines
BackendModules ==
    [m \in {"htcondor", "spacehpc", "test"} |->
        CASE m = "htcondor" -> {"HtcondorConfig", "HtcondorBackend"}
          [] m = "spacehpc" -> {"SpacehpcConfig", "SpacehpcBackend"}
          [] OTHER          -> {"TestConfig", "TestBackend"}]

\* load_backend_classes: the classes are named by their prefix
load_backend_classes(mode) ==
    LET module_name == lower(mode)
        prefix == capitalize(mode)
    IN  IF module_name \notin DOMAIN BackendModules
        THEN Raise(PyError("ModuleNotFoundError", "backends." \o module_name))
        ELSE IF ~({prefix \o "Config", prefix \o "Backend"}
                     \subseteq BackendModules[module_name])
        THEN Raise(ConfigError("Plugin must define classes", module_name))
        ELSE Ok([ConfigClass |-> prefix \o "Config",
                 BackendClass |-> prefix \o "Backend"])

-----------------------------------------------------------------------------
(* ArtifactWriter and the backends *)

\* outdir.mkdir(parents=True, exist_ok=True)
mkdir(dir) == [dir EXCEPT !.exists = TRUE]

\* ArtifactWriter.write_text: write the text, then chmod
write_text(dir, name, content, mode) ==
    [dir EXCEPT !.files =
        [n \in DOMAIN dir.files \cup {name} |->
            IF n = name THEN [content |-> content, mode |-> mode]
            ELSE dir.files[n]]]

FILE_SUB == "htcondor_job.sub"
FILE_SH == "htcondor_job.sh"
FILE_HTCONDOR_SUBMIT == "htcondor_submit.sh"

\* the attributes BaseBackend.__init__ sets on a backend
BackendAttrs == {"config", "writer"}

\* the first of the names that is not in attrs, "" when all are
RECURSIVE FirstAbsent(_, _)
FirstAbsent(names, attrs) ==
    IF names = <<>> THEN ""
    ELSE IF Head(names) \notin attrs THEN Head(names)
    ELSE FirstAbsent(Tail(names), attrs)

\* str.endswith(".py") on the executables of the model
EndsWithPy(s) == s \in {"run.py"}

\* HtcondorBackend._generate_sub up to its call of write_text: the text is
\* the list of the values it interpolates
_generate_sub(cfg, dirname) ==
    LET absent == FirstAbsent(<<"project", "data_dir", "output_dir", "cpus",
                                "gpus", "ram", "image", "inputs">>, DOMAIN cfg)
    IN  IF absent # ""
        THEN Raise(PyError("AttributeError", absent))
        ELSE Ok([name |-> FILE_SUB, mode |-> "0o644",
                 content |->
                    <<"executable", dirname \o "/" \o FILE_SH,
                      "request_cpus", cfg["cpus"].s,
                      "request_gpus",
                      IF Truthy(cfg["gpus"]) THEN cfg["gpus"].s ELSE "",
                      "request_memory", cfg["ram"].s,
                      "+SingularityImage", cfg["image"].s,
                      "+SingularityBind",
                      PyStr(cfg["project"]) \o ":/project,"
                          \o cfg["data_dir"].s \o ":/data,"
                          \o cfg["output_dir"].s \o ":/output",
                      "queue",
                      IF Truthy(cfg["inputs"]) THEN PyStr(cfg["inputs"])
                      ELSE "">>])

\* HtcondorBackend._generate_sh up to its call of write_text
_generate_sh(cfg, dirname) ==
    LET absent == FirstAbsent(<<"executable", "requirements", "venv">>,
                              DOMAIN cfg)
    IN  IF absent # ""
        THEN Raise(PyError("AttributeError", absent))
        ELSE Ok([name |-> FILE_SH, mode |-> "0o755",
                 content |->
                    <<"venv_steps",
                      IF Truthy(cfg["requirements"])
                      THEN (IF cfg["venv"].s # "" THEN cfg["venv"].s
                            ELSE "${_CONDOR_SCRATCH_DIR}/.venv")
                      ELSE "",
                      "requirements", cfg["requirements"].s,
                      "run_cmd",
                      IF EndsWithPy(cfg["executable"].s)
                      THEN "python3 /project/" \o cfg["executable"].s
                      ELSE "/project/" \o cfg["executable"].s>>])

\* HtcondorBackend._generate_htcondor_submit up to its call of write_text
_generate_htcondor_submit(cfg, dirname) ==
    LET absent == FirstAbsent(<<"pool", "schedd">>, DOMAIN cfg)
    IN  IF absent # ""
        THEN Raise(PyError("AttributeError", absent))
        ELSE Ok([name |-> FILE_HTCONDOR_SUBMIT, mode |-> "0o755",
                 content |->
                    <<"condor_submit", "-pool", cfg["pool"].s,
                      "-name", cfg["schedd"].s,
                      dirname \o "/" \o FILE_SUB>>])

\* the statements of BackendClass.generate, in order
Statements(BackendClass) ==
    CASE BackendClass = "HtcondorBackend" ->
            <<"_generate_sub", "_generate_sh", "_generate_htcondor_submit">>
      [] BackendClass = "SpacehpcBackend" ->
            <<"from_merged", "job.pbs", "submit_spacehpc.sh">>
      [] OTHER -> <<"print">>

\* one statement of generate: an exception, a file to write, or nothing to
\* write (name "").  SpacehpcBackend.generate reads self.merged, then
\* self.top and self.payload.
Statement(stmt, cfg, dirname) ==
    CASE stmt = "_generate_sub" -> _generate_sub(cfg, dirname)
      [] stmt = "_generate_sh" -> _generate_sh(cfg, dirname)
      [] stmt = "_generate_htcondor_submit" ->
            _generate_htcondor_submit(cfg, dirname)
      [] stmt = "from_merged" ->
            IF "merged" \notin BackendAttrs
            THEN Raise(PyError("AttributeError", "merged"))
            ELSE Ok([name |-> "", mode |-> "", content |-> <<>>])
      [] stmt \in {"job.pbs", "submit_spacehpc.sh"} ->
            IF "top" \notin BackendAttrs
            THEN Raise(PyError("AttributeError", "top"))
            ELSE Ok([name |-> stmt, mode |-> "0o755", content |-> <<stmt>>])
      [] OTHER -> Ok([name |-> "", mode |-> "", content |-> <<>>])

-----------------------------------------------------------------------------
(* The inputs of main: a command line, the configuration files and the     *)
(* output directory the first run finds.                                    *)

CONFIG_PROJECT == "hpc_submit.conf"

BaseRequired == {"project_dir", "data_dir", "output_dir", "image", "executable"}

\* a configuration with every base key
BaseFull ==
    Dict([k \in BaseRequired |->
        CASE k = "project_dir" -> StrVal("/proj")
          [] k = "data_dir"    -> StrVal("/data")
          [] k = "output_dir"  -> StrVal("/out")
          [] k = "image"       -> StrVal("/img.sif")
          [] OTHER             -> StrVal("run.py")])

HtcondorFull ==
    Dict([k \in {"pool", "schedd", "cpus", "ram"} |->
        CASE k = "pool"   -> StrVal("P")
          [] k = "schedd" -> StrVal("S")
          [] k = "cpus"   -> IntVal("2")
          [] OTHER        -> StrVal("2G")])

SpacehpcFull ==
    Dict([k \in {"login_node", "user", "ssh_key", "project"} |->
        CASE k = "login_node" -> StrVal("L")
          [] k = "user"       -> StrVal("U")
          [] k = "ssh_key"    -> StrVal("K")
          [] OTHER            -> StrVal("PRJ")])

\* d with the keys ks left out ("absent") or holding the empty string
Lacking(d, ks, how) ==
    Dict([k \in (IF how = "absent" THEN DOMAIN d.m \ ks ELSE DOMAIN d.m) |->
        IF k \in ks THEN StrVal("") ELSE d.m[k]])

\* what the project file holds for a backend: the base keys and the
\* backend's section, lacking at most MaxMissing required keys in all; or
\* the base keys and no section
ProjectConfigs(module_name) ==
    LET full ==
            CASE module_name = "htcondor" -> HtcondorFull
              [] module_name = "spacehpc" -> SpacehpcFull
              [] OTHER -> EmptyDict
        required == DOMAIN full.m \ {"cpus", "ram"}
        lacks == {x \in SUBSET (BaseRequired \cup required) :
                     Cardinality(x) <= MaxMissing}
        bases == {Lacking(BaseFull, ks \cap BaseRequired, how) :
                     ks \in lacks, how \in {"absent", "empty"}}
    IN  IF module_name \notin {"htcondor", "spacehpc"} THEN bases
        ELSE bases
             \cup {Put(Lacking(BaseFull, ks \cap BaseRequired, how),
                       module_name, Lacking(full, ks \cap required, how)) :
                   ks \in lacks, how \in {"absent", "empty"}}
             \cup {Put(BaseFull, module_name, Put(full, "job_name", j)) :
                   j \in {StrVal("7"), StrVal("nightly")}}
             \cup {Put(BaseFull, module_name, Lacking(full, {"cpus", "ram"},
                                                      "absent"))}

Modes == {"htcondor", "HTCondor", "spacehpc", "test", "nonexistent"}

Projects == {"proj", "~"}

SetLists ==
    {<<>>, <<<<"image", "=">>>>, <<<<"image">>>>,
     <<<<"htcondor", ".", "schedd", "=", "''">>>>,
     <<<<"mode", "=", "spacehpc">>, <<"project", "=", "/elsewhere">>>>}

GlobalFiles ==
    {NoFile, File(Dict([k \in {"image"} |-> StrVal("/site.sif")])),
     File(Dict([k \in {"mode", "project"} |->
               IF k = "mode" THEN StrVal("test") ELSE StrVal("/site")]))}

StaleDir ==
    [exists |-> TRUE,
     files |-> [n \in {"old.txt"} |-> [content |-> <<"old">>, mode |-> "0o644"]]]

AbsentDir == [exists |-> FALSE, files |-> EmptyMap]

\* the project file is where main looks for it, or at the path that
\* --project-config names
FileSystems(args) ==
    {[p \in {CONFIG_GLOBAL, CONFIG_USER,
             expanduser(args.project) \o "/" \o CONFIG_PROJECT,
             "alt.conf"} |->
        IF p = CONFIG_GLOBAL THEN g
        ELSE IF p = CONFIG_USER THEN NoFile
        ELSE IF (p = "alt.conf") = (args.project_config = "alt.conf")
        THEN File(c)
        ELSE NoFile] :
     g \in GlobalFiles,
     c \in IF args.project_config = "" THEN ProjectConfigs(lower(args.mode))
           ELSE {BaseFull, Put(BaseFull, lower(args.mode), HtcondorFull),
                 Put(Put(BaseFull, lower(args.mode), HtcondorFull),
                     "project", StrVal("/fromfile"))}}

-----------------------------------------------------------------------------
(* main, one run after another on the same command line and files *)

\* resolve_project_cfg
resolve_project_cfg(args) ==
    IF args.project_config # "" THEN args.project_config
    ELSE expanduser(args.project) \o "/" \o CONFIG_PROJECT

Init ==
    /\ pc = "start"
    /\ argv \in [mode : Modes, project : Projects,
                 project_config : {"", "alt.conf"}, set : SetLists]
    /\ fs \in FileSystems(argv)
    /\ outdir \in {AbsentDir, StaleDir}
    /\ overrides = NoneVal /\ merged = NoneVal /\ config = <<>>
    /\ writer = FALSE /\ step = 0 /\ exc = NoExc /\ at = ""
    /\ written = <<>> /\ runs = 1 /\ prevdir = outdir
    /\ fin = <<>> /\ fout = <<>>

\* the run ends with exception e, raised by the statement at pc
Exit(e) ==
    /\ pc' = "exit"
    /\ exc' = e
    /\ at' = pc

\* main, lines 252-269: create outdir, parse the overrides, merge the
\* layers, set project and mode
Main_Configure ==
    /\ pc = "start"
    /\ outdir' = mkdir(outdir)
    /\ LET ov == parse(argv.set)
           mg == load_merged(fs, CONFIG_GLOBAL, CONFIG_USER,
                             resolve_project_cfg(argv), ov.val)
       IN  IF ~IsOk(ov)
           THEN Exit(ov.exc) /\ UNCHANGED <<overrides, merged>>
           ELSE IF ~IsOk(mg)
           THEN Exit(mg.exc) /\ overrides' = ov.val /\ UNCHANGED merged
           ELSE /\ overrides' = ov.val
                /\ merged' = Dict(Update(mg.val.m,
                                  [k \in {"project", "mode"} |->
                                      IF k = "project"
                                      THEN StrVal(expanduser(argv.project))
                                      ELSE StrVal(lower(argv.mode))]))
                /\ pc' = "load_backend"
                /\ UNCHANGED <<exc, at>>
    /\ UNCHANGED <<argv, fs, config, writer, step, written, runs, prevdir,
                   fin, fout>>

\* main, line 271
Main_LoadBackend ==
    /\ pc = "load_backend"
    /\ LET r == load_backend_classes(argv.mode)
       IN  IF ~IsOk(r) THEN Exit(r.exc)
           ELSE pc' = "from_merged" /\ UNCHANGED <<exc, at>>
    /\ UNCHANGED <<argv, fs, overrides, merged, config, writer, step, outdir,
                   written, runs, prevdir, fin, fout>>

\* main, line 272
Main_FromMerged ==
    /\ pc = "from_merged"
    /\ LET r == from_merged(load_backend_classes(argv.mode).val.ConfigClass,
                            merged)
       IN  IF ~IsOk(r) THEN Exit(r.exc) /\ UNCHANGED config
           ELSE config' = r.val /\ pc' = "writer" /\ UNCHANGED <<exc, at>>
    /\ UNCHANGED <<argv, fs, overrides, merged, writer, step, outdir,
                   written, runs, prevdir, fin, fout>>

\* main, lines 273-274: ArtifactWriter.__init__ and BaseBackend.__init__
Main_Writer ==
    /\ pc = "writer"
    /\ outdir' = mkdir(outdir)
    /\ writer' = TRUE
    /\ step' = 1
    /\ pc' = "generate"
    /\ UNCHANGED <<argv, fs, overrides, merged, config, exc, at, written,
                   runs, prevdir, fin, fout>>

\* main, lines 276-279: the next statement of backend.generate(); after the
\* last one generate returns and main returns 0
Generate ==
    /\ pc = "generate"
    /\ LET stmts == Statements(
                        load_backend_classes(argv.mode).val.BackendClass)
       IN  IF step > Len(stmts)
           THEN /\ pc' = "exit" /\ exc' = NoExc /\ at' = "return"
                /\ UNCHANGED <<step, outdir, written>>
           ELSE LET r == Statement(stmts[step], config,
                                   expanduser(argv.project) \o "/.hpc_submit_gen")
                IN  IF ~IsOk(r)
                    THEN Exit(r.exc) /\ UNCHANGED <<step, outdir, written>>
                    ELSE /\ step' = step + 1
                         /\ UNCHANGED <<pc, exc, at>>
                         /\ IF r.val.name = ""
                            THEN UNCHANGED <<outdir, written>>
                            ELSE /\ outdir' = write_text(outdir, r.val.name,
                                                  r.val.content, r.val.mode)
                                 /\ written' = Append(written, r.val.name)
    /\ UNCHANGED <<argv, fs, overrides, merged, config, writer, runs,
                   prevdir, fin, fout>>

\* main is run again, with the same command line, on what the last run left
NextRun ==
    /\ pc = "exit"
    /\ runs < MaxRuns
    /\ runs' = runs + 1
    /\ prevdir' = outdir
    /\ pc' = "start"
    /\ overrides' = NoneVal /\ merged' = NoneVal /\ config' = <<>>
    /\ writer' = FALSE /\ step' = 0 /\ exc' = NoExc /\ at' = ""
    /\ written' = <<>>
    /\ UNCHANGED <<argv, fs, outdir, fin, fout>>

Next ==
    \/ Main_Configure
    \/ Main_LoadBackend
    \/ Main_FromMerged
    \/ Main_Writer
    \/ Generate
    \/ NextRun

Spec == Init /\ [][Next]_vars

-----------------------------------------------------------------------------
(* Claims about main *)

Ended == pc = "exit"

\* the run got as far as a merged configuration
Merged == merged # NoneVal

\* the backend name resolves to a module of the backends package
Resolves == lower(argv.mode) \in DOMAIN BackendModules

\* d lacks k, or holds null or the empty string at k
Lacks(d, k) == ~HasKey(d, k) \/ d.m[k] = NoneVal \/ d.m[k] = StrVal("")

MissingKey(k) == ConfigError("Missing required config key", k)

\* the first key of order that d lacks, "" when it lacks none
RECURSIVE FirstLacked(_, _)
FirstLacked(d, order) ==
    IF order = <<>> THEN ""
    ELSE IF Lacks(d, Head(order)) THEN Head(order)
    ELSE FirstLacked(d, Tail(order))

BaseOrder == <<"project_dir", "data_dir", "output_dir", "image", "executable">>

Names(seq) == {seq[i] : i \in DOMAIN seq}

\* no artifact was written and the directory holds what it held before
NothingWritten == written = <<>> /\ outdir.files = prevdir.files

\* C1 as stated: for every base required key K that the merged
\* configuration lacks (or holds null or "" at), main fails with the
\* missing-required-key error naming K, before any artifact is written, and
\* an output directory that was absent or empty is empty afterwards.
C1_EveryLackedBaseKeyIsNamed ==
    \A K \in BaseRequired :
        (Ended /\ Merged /\ Resolves /\ Lacks(merged, K))
            => (exc = MissingKey(K) /\ NothingWritten)

\* C1 as amended: the error names the first base required key, in the order
\* project_dir, data_dir, output_dir, image, executable, that the merged
\* configuration lacks, in a run whose backend name resolves.
C1_FirstLackedBaseKeyIsNamed ==
    (Ended /\ Merged /\ Resolves /\ FirstLacked(merged, BaseOrder) # "")
        => /\ exc = MissingKey(FirstLacked(merged, BaseOrder))
           /\ at = "from_merged"
           /\ NothingWritten
           /\ DOMAIN prevdir.files = {} => DOMAIN outdir.files = {}

\* C1 witness: a first run on an absent directory ended on a configuration
\* whose image is null, the other base keys being there
C1_Witness ==
    /\ Ended /\ runs = 1 /\ ~prevdir.exists
    /\ HasKey(merged, "image") /\ merged.m["image"] = NoneVal
    /\ \A k \in BaseRequired \ {"image"} : ~Lacks(merged, k)
    /\ exc = MissingKey("image")
    /\ outdir.exists /\ DOMAIN outdir.files = {}

\* C2: a backend name with no implementation fails with the UnknownBackend
\* error, a configuration error like the other validation errors, and no
\* artifact is written.
C2_UnknownBackendIsConfigError ==
    (Ended /\ Merged /\ ~Resolves)
        => (exc.kind = "ConfigError" /\ NothingWritten)

HtcondorRun ==
    Merged /\ Resolves
        /\ load_backend_classes(argv.mode).val.BackendClass = "HtcondorBackend"

\* C5: in one htcondor generate the wrapper script is written before the
\* submit descriptor that references it is rendered, and the descriptor
\* before the submission script that references the descriptor.
C5_ArtifactsInDependencyOrder ==
    (pc = "generate" /\ HtcondorRun
        /\ step <= Len(Statements("HtcondorBackend")))
        => LET stmt == Statements("HtcondorBackend")[step]
           IN  /\ stmt = "_generate_sub" => FILE_SH \in Names(written)
               /\ stmt = "_generate_htcondor_submit"
                     => FILE_SUB \in Names(written)

\* the merged configuration holds every base required key and the htcondor
\* section with pool and schedd
ValidHtcondor ==
    /\ HtcondorRun
    /\ FirstLacked(merged, BaseOrder) = ""
    /\ FirstLacked(Section(merged, "htcondor"), <<"pool", "schedd">>) = ""
    /\ \A k \in {"cpus", "gpus"} :
          HasKey(Section(merged, "htcondor"), k)
              => Section(merged, "htcondor").m[k].tag = "int"

\* value follows key in the text
HasPair(text, key, value) ==
    \E i \in DOMAIN text :
        i < Len(text) /\ text[i] = key /\ text[i + 1] = value

\* C6: with every base required key and the htcondor section with pool and
\* schedd, generate completes without error and has written exactly the
\* three artifacts: the descriptor with the configured request_cpus and
\* request_memory, the wrapper running python3 /project/<executable>, and
\* the submission script calling condor_submit -pool <pool> -name <schedd>
\* on the descriptor in the output directory.
C6_EndToEnd ==
    (Ended /\ ValidHtcondor)
        => /\ exc = NoExc
           /\ Names(written) =
                  {FILE_SUB, FILE_SH, FILE_HTCONDOR_SUBMIT}
           /\ Len(written) = Cardinality(Names(written))
           /\ LET ht == Section(merged, "htcondor")
              IN  /\ HasPair(outdir.files[FILE_SUB].content, "request_cpus",
                             Get(ht, "cpus", IntVal("1")).s)
                  /\ HasPair(outdir.files[FILE_SUB].content, "request_memory",
                             Get(ht, "ram", StrVal("1G")).s)
                  /\ HasPair(outdir.files[FILE_SH].content, "run_cmd",
                             "python3 /project/" \o merged.m["executable"].s)
                  /\ outdir.files[FILE_HTCONDOR_SUBMIT].content =
                        <<"condor_submit", "-pool", ht.m["pool"].s, "-name",
                          ht.m["schedd"].s,
                          expanduser(argv.project) \o "/.hpc_submit_gen/" \o FILE_SUB>>

\* the required keys of the section of a backend, in the order of its schema
SectionOrder(module_name) ==
    CASE module_name = "htcondor" -> <<"pool", "schedd">>
      [] module_name = "spacehpc" ->
            <<"login_node", "user", "ssh_key", "project">>
      [] OTHER -> <<>>

\* the artifacts of a backend
ArtifactsOf(module_name) ==
    CASE module_name = "htcondor" ->
            {FILE_SUB, FILE_SH, FILE_HTCONDOR_SUBMIT}
      [] module_name = "spacehpc" -> {"job.pbs", "submit_spacehpc.sh"}
      [] OTHER -> {}

\* every error of the configuration is raised while the configuration is
\* read, and a run that ended wrote none or all of its backend's artifacts
ValidationIsEager ==
    Ended =>
        /\ exc.kind = "ConfigError"
              => (at \in {"start", "load_backend", "from_merged"}
                     /\ NothingWritten)
        /\ Resolves => Names(written) \in {{}, ArtifactsOf(lower(argv.mode))}

\* C7 as stated: when a required key of the backend's section is missing or
\* empty and all base required keys are there, validation fails with the
\* missing-required-key error naming that key, after the base keys were
\* checked and before any artifact is written; and every validation failure
\* happens while the configuration is parsed, so no run ends with part of
\* the artifact set written.
C7_EveryLackedSectionKeyIsNamed ==
    /\ \A K \in Names(SectionOrder(lower(argv.mode))) :
          (Ended /\ Merged /\ Resolves /\ FirstLacked(merged, BaseOrder) = ""
              /\ Lacks(Section(merged, lower(argv.mode)), K))
              => (exc = MissingKey(K) /\ at = "from_merged" /\ NothingWritten)
    /\ ValidationIsEager

\* C7 as amended: the error names the first required key, in the order of
\* the backend's schema, that the section lacks; a base key that is lacked
\* is reported instead of it.
C7_FirstLackedSectionKeyIsNamed ==
    /\ (Ended /\ Merged /\ Resolves
           /\ FirstLacked(Section(merged, lower(argv.mode)),
                          SectionOrder(lower(argv.mode))) # "")
          => /\ exc = MissingKey(
                    IF FirstLacked(merged, BaseOrder) # ""
                    THEN FirstLacked(merged, BaseOrder)
                    ELSE FirstLacked(Section(merged, lower(argv.mode)),
                                     SectionOrder(lower(argv.mode))))
             /\ at = "from_merged"
             /\ NothingWritten
    /\ ValidationIsEager

\* C7 witness: a spacehpc run with every base key ended on a section that
\* holds login_node and user and has an empty ssh_key
C7_Witness ==
    /\ Ended /\ lower(argv.mode) = "spacehpc"
    /\ FirstLacked(merged, BaseOrder) = ""
    /\ HasKey(Section(merged, "spacehpc"), "ssh_key")
    /\ Section(merged, "spacehpc").m["ssh_key"] = StrVal("")
    /\ exc = MissingKey("ssh_key")
    /\ at = "from_merged"
    /\ written = <<>>

\* C8: generation is idempotent: run twice with the same configuration on
\* the same directory, the second run starting from the non-empty directory
\* left by the first, it leaves the same artifacts with the same contents
\* and modes after each run.
C8_GenerationIsIdempotent ==
    (Ended /\ runs >= 2 /\ ValidHtcondor)
        => /\ ArtifactsOf("htcondor") \subseteq DOMAIN prevdir.files
           /\ ArtifactsOf("htcondor") \subseteq DOMAIN outdir.files
           /\ \A n \in ArtifactsOf("htcondor") :
                 outdir.files[n] = prevdir.files[n]

\* some layer gives the top-level key k a value other than v: a
\* configuration file main reads, or the --set overrides
Supplied(k, v) ==
    \/ \E p \in {CONFIG_GLOBAL, CONFIG_USER, resolve_project_cfg(argv)} :
          /\ fs[p].exists /\ IsDict(fs[p].data)
          /\ HasKey(fs[p].data, k) /\ fs[p].data.m[k] # v
    \/ /\ IsDict(overrides) /\ HasKey(overrides, k) /\ overrides.m[k] # v

\* C11: the mapping main passes to from_merged holds the positional mode,
\* lower-cased, at "mode" and the positional project path at "project",
\* whatever the configuration files and the --set overrides hold at these
\* two top-level keys.
C11_PositionalsOverrideLayers ==
    Merged => /\ HasKey(merged, "mode")
              /\ merged.m["mode"] = StrVal(lower(argv.mode))
              /\ HasKey(merged, "project")
              /\ merged.m["project"] = StrVal(expanduser(argv.project))

\* from_merged has run on a mapping for which a file gives another mode and
\* --set gives another project, and has returned a record
C11_Witness ==
    /\ Merged /\ config # <<>>
    /\ argv.mode = "HTCondor" /\ argv.project = "~"
    /\ HasKey(fs[CONFIG_GLOBAL].data, "mode")
    /\ fs[CONFIG_GLOBAL].data.m["mode"] # merged.m["mode"]
    /\ HasKey(overrides, "project")
    /\ overrides.m["project"] # merged.m["project"]
    /\ Supplied("mode", merged.m["mode"])
    /\ Supplied("project", merged.m["project"])
    /\ config["mode"] = StrVal("htcondor")
    /\ config["project"] = StrVal("/home/user")

====
